---- MODULE Spec2Model ----
(***************************************************************************)
(* The directory-backed durable queue of                                   *)
(* component/prometheus/remote/linear/filequeue.go, with the file system   *)
(* it writes to, the callers' goroutines, and process crash + reopen; and  *)
(* the store coordinator (dbstore) of package simple over its sample and   *)
(* bookmark stores, with its writers, readers and evictor.                 *)
(***************************************************************************)
EXTENDS Integers, Sequences, FiniteSets, TLC

\* Bounds of the model.
MaxIdx == 2         \* Add calls are explored while maxindex < MaxIdx
MaxBatch == 2       \* longest handles slice passed to Commit

Threads == {1, 2}                 \* caller goroutines sharing one *queue
Payloads == {<<5>>, <<6>>}        \* data []byte values handed to Add*
\* Queue directories, as path components relative to the working directory:
\* <<>> is "." (filepath.Join(".", x) cleans to x), <<"q">> is "q".
Dirs == {<<>>, <<"q">>}

VARIABLES
    fs,          \* the file system: path -> file content (bytes)
    directory,   \* queue.directory
    maxindex,    \* queue.maxindex
    mut,         \* queue.mut: 0 when free, else the goroutine holding Lock()
    pc,          \* per goroutine: where it stands inside a queue method
    call,        \* per goroutine: arguments, locals and results of its call
    \* history variables (not program state), used to state the properties
    observe,     \* which of the histories below this behaviour records
    pending,     \* files made by AddUncommited and not renamed by Commit yet
    lastAlloc,   \* the last index an Add was given since open, and the goroutine
    lost,        \* "crash": stems of the entries that were pending at the last crash
    highWater,   \* "crash": largest index ever written to the directory
    promoted,    \* "commit": handle -> payload, for the handles a Commit was given
    overtaken,   \* "order": stems still uncommitted when Next returned a later entry
    received,    \* "order": indices Next has returned since open, in order
    \* the store coordinator (dbstore) of package simple
    sampleDB,       \* dbstore.sampleDB: the sample store
    bookmark,       \* dbstore.bookmark: the bookmark store
    ttl,            \* dbstore.ttl
    oldestInUsKey,  \* dbstore.oldestInUsKey
    dbmut,          \* dbstore.mut: 0 when free, else the goroutine holding Lock()
    dbpc,           \* per goroutine: where it stands inside evict / UpdateOldestKey
    now,            \* the clock, in units of time
    last,           \* history: the last call of a dbstore method, with its result
    ev,             \* history: what the evict in progress has done so far
    firstKey,       \* history: the first key WriteSignal returned
    lastKey,        \* history: the last key WriteSignal returned
    wrote,          \* history: bookmark key -> the value last written under it
    \* one writeFile / readFile round trip through the buffer pool
    rt

\* the queue's variables
qvars == <<fs, directory, maxindex, mut, pc, call, observe,
           pending, lastAlloc, lost, highWater, promoted, overtaken, received>>

\* the store coordinator's variables
dbvars == <<sampleDB, bookmark, ttl, oldestInUsKey, dbmut, dbpc, now, last, ev,
            firstKey, lastKey, wrote>>

\* what a queue method leaves alone
other == <<dbvars, rt>>

vars == <<qvars, dbvars, rt>>

hist == <<observe, pending, lastAlloc, lost, highWater, promoted, overtaken, received>>

Observations == {"crash", "commit", "order"}

\* the new value of a history variable that is recorded under observation o
Obs(o, new, old) == IF observe = o THEN new ELSE old

----------------------------------------------------------------------------
\* Paths and names

NoPath == [dir |-> <<>>, stem |-> "", ext |-> ""]     \* the empty string ""

Digits == <<"0", "1", "2", "3", "4", "5", "6", "7", "8", "9">>

\* fmt.Sprintf("%d", n)
Itoa(n) == Digits[n + 1]

\* strconv.Atoi(s): (value, error)
Atoi(s) ==
    IF \E n \in 0..9 : Digits[n + 1] = s
    THEN [val |-> CHOOSE n \in 0..9 : Digits[n + 1] = s, err |-> FALSE]
    ELSE [val |-> 0, err |-> TRUE]

\* fmt.Sprintf("%d.committed", n)
CommittedName(n) == [dir |-> <<>>, stem |-> Itoa(n), ext |-> "committed"]

UncommittedNameAsCommitted(n) == [dir |-> <<>>, stem |-> Itoa(n), ext |-> "committed"]

\* fmt.Sprintf("%d.uncommitted", n)
UncommittedName(n) == [dir |-> <<>>, stem |-> Itoa(n), ext |-> "uncommitted"]

\* filepath.Join(d, p)
Join(d, p) == [p EXCEPT !.dir = d \o p.dir]

\* strings.Replace(h, "uncommitted", "committed", 1); no directory of Dirs
\* contains the word, so the one occurrence is the extension
Replace(h) == IF h.ext = "uncommitted" THEN [h EXCEPT !.ext = "committed"] ELSE h

\* filepath.Glob(filepath.Join(d, "*." + ext)) on file system f
Glob(f, d, ext) == {p \in DOMAIN f : p.dir = d /\ p.ext = ext}

\* strconv.Atoi(strings.ReplaceAll(filepath.Base(x), ".committed", "")),
\* the slot of ids staying 0 when Atoi fails
IdOf(x) == IF Atoi(x.stem).err THEN 0 ELSE Atoi(x.stem).val

\* ids after sort.Ints(ids)
RECURSIVE SortedIds(_)
SortedIds(S) ==
    IF S = {} THEN <<>>
    ELSE LET m == CHOOSE x \in S : \A y \in S : IdOf(x) <= IdOf(y)
         IN  <<IdOf(m)>> \o SortedIds(S \ {m})

\* file system updates
Put(f, p, content) == [x \in DOMAIN f \cup {p} |-> IF x = p THEN content ELSE f[x]]
Remove(f, p) == [x \in DOMAIN f \ {p} |-> f[x]]
RemoveAll(f, S) == [x \in DOMAIN f \ S |-> f[x]]

----------------------------------------------------------------------------
\* snappy block format for inputs shorter than 60 bytes: the uncompressed
\* length, then one literal element (tag byte (n-1)<<2, then the n bytes)

Encode(data) ==
    IF data = <<>> THEN <<0>>
    ELSE <<Len(data), (Len(data) - 1) * 4>> \o data

\* snappy.Decode: (bytes, error); anything that is not a complete block is corrupt
Decode(bb) ==
    IF bb = <<>> THEN [data |-> <<>>, err |-> TRUE]
    ELSE IF bb[1] = 0
         THEN [data |-> <<>>, err |-> Len(bb) # 1]
    ELSE IF Len(bb) >= 2 /\ bb[2] % 4 = 0 /\ (bb[2] \div 4) + 1 = bb[1]
            /\ Len(bb) = 2 + bb[1]
         THEN [data |-> SubSeq(bb, 3, Len(bb)), err |-> FALSE]
    ELSE [data |-> <<>>, err |-> TRUE]

----------------------------------------------------------------------------
\* Per-goroutine call record

NoCall == [op |-> "", data |-> <<>>, name |-> NoPath, handles |-> <<>>, i |-> 0,
           err |-> FALSE, found |-> FALSE, more |-> FALSE,
           io |-> FALSE,        \* history: the environment failed an I/O call in this op
           fresh |-> TRUE,      \* history: the index given to this Add was unused
           batch |-> <<>>]      \* history: handle -> payload of this Commit's handles
                                \* that name a complete pending file

EmptyMap == [x \in {} |-> <<>>]

Stems(S) == {p.stem : p \in S}

Max(a, b) == IF a >= b THEN a ELSE b

\* handles AddUncommited can return on this queue
Handles == {Join(directory, UncommittedName(n)) : n \in 1..MaxIdx}

\* names Add* and Next can return on this queue
Names == Handles \cup {Join(directory, CommittedName(n)) : n \in 1..MaxIdx}

RECURSIVE SeqsNoRep(_, _)
SeqsNoRep(S, n) ==
    IF n = 0 THEN {<<>>}
    ELSE LET shorter == SeqsNoRep(S, n - 1)
         IN  shorter \cup {Append(s, x) : s \in {q \in shorter : Len(q) = n - 1},
                                          x \in S}

Range(s) == {s[k] : k \in DOMAIN s}

Batches == {s \in SeqsNoRep(Handles, MaxBatch) :
               s # <<>> /\ Cardinality(Range(s)) = Len(s)}

----------------------------------------------------------------------------
\* writeFile / readFile and their buffers.  A buffer is the bytes it holds and
\* its length; only the bytes that were ever written are kept, the rest of a
\* pooled buffer is zero and is never read.

MaxLen == 2                      \* longest payload of a round trip

\* bufPool.New: make([]byte, 0, 1024*1024*16)
BufSize == 16 * 1024 * 1024

Bytes == {0, 7}

\* payloads of at most n bytes
RECURSIVE SeqsUpTo(_)
SeqsUpTo(n) ==
    IF n = 0 THEN {<<>>}
    ELSE SeqsUpTo(n - 1) \cup
         {Append(x, b) : x \in {y \in SeqsUpTo(n - 1) : Len(y) = n - 1}, b \in Bytes}

\* snappy.MaxEncodedLen(n)
MaxEncodedLen(n) == 32 + n + n \div 6

\* bytes e stored at the front of a buffer holding bytes b
Overwrite(b, e) == e \o SubSeq(b, Len(e) + 1, Len(b))

\* snappy.Encode(dst, src) with dst = buffer[:cap(buffer)]: the block is built in
\* dst when dst is long enough, else in a new slice; out is the slice returned
EncodeInto(buf, src) ==
    LET e == Encode(src)
    IN  IF buf.len < MaxEncodedLen(Len(src))
        THEN [out |-> e, buf |-> buf]
        ELSE LET b == Overwrite(buf.bytes, e)
             IN  [out |-> SubSeq(b, 1, Len(e)), buf |-> [buf EXCEPT !.bytes = b]]

\* snappy.Decode(dst, src): decoded into dst[:dLen] when dLen <= len(dst), else
\* into a new slice
DecodeInto(dst, bb) ==
    LET d == Decode(bb)
    IN  IF d.err THEN [data |-> <<>>, err |-> TRUE]
        ELSE IF Len(d.data) <= Len(dst)
             THEN [data |-> SubSeq(Overwrite(dst, d.data), 1, Len(d.data)), err |-> FALSE]
        ELSE [data |-> d.data, err |-> FALSE]

writeFileWholeBuffer(buf, data) ==
    [file |-> EncodeInto(buf, data).buf.bytes, buf |-> EncodeInto(buf, data).buf]

\* writeFile(name, data): the bytes os.WriteFile is given, and the buffer that
\* goes back to bufPool
writeFile(buf, data) ==
    [file |-> EncodeInto(buf, data).out, buf |-> EncodeInto(buf, data).buf]

\* readFile(name, enc) on a file holding bb: (enc, err)
readFile(bb, enc) == DecodeInto(enc, bb)

\* a buffer taken from bufPool: new, or holding what earlier writeFile calls
\* of any queue left in it
PoolBuffers == {[bytes |-> b, len |-> BufSize] :
                  b \in {<<>>, <<9, 9, 9, 9, 9, 9>>, Encode(<<7, 0>>) \o <<3>>}}

\* the enc argument of Next
CallerBuffers == {<<>>, <<8>>, <<8, 8, 8, 8>>}

NoRt == [pc |-> "none", buf |-> [bytes |-> <<>>, len |-> 0], data |-> <<>>,
         file |-> <<>>, enc |-> <<>>, out |-> <<>>, err |-> FALSE]

----------------------------------------------------------------------------
\* The store engine behind dbstore.sampleDB and dbstore.bookmark (SignalDB).
\* A store is its records, key -> [val, ttl, at], and the next automatic key.

MaxKey == 2                      \* WriteSignal is explored while the next key <= MaxKey
MaxTime == 2                     \* the clock runs from 0 to MaxTime

Nil == [type |-> "nil", v |-> 0]

\* &Bookmark{Key: n}
Bookmark(n) == [type |-> "Bookmark", v |-> n]

Sample(n) == [type |-> "Sample", v |-> n]

NewDB == [recs |-> EmptyMap, next |-> 1]

\* WriteValue(key, value, ttl) at time t
DBWriteValue(s, k, v, d, t) ==
    [s EXCEPT !.recs = Put(s.recs, k, [val |-> v, ttl |-> d, at |-> t])]

\* WriteValueWithAutokey(value, ttl) at time t: the store after it, and the key
DBWriteValueWithAutokey(s, v, d, t) ==
    [db |-> [recs |-> Put(s.recs, s.next, [val |-> v, ttl |-> d, at |-> t]),
             next |-> s.next + 1],
     key |-> s.next]

\* GetValueByKey(key) / GetValueByString(key): (value, found, err); fail: the
\* engine's read fails
DBGetValue(s, k, fail) ==
    IF fail THEN [val |-> Nil, found |-> FALSE, err |-> TRUE]
    ELSE IF k \in DOMAIN s.recs
         THEN [val |-> s.recs[k].val, found |-> TRUE, err |-> FALSE]
    ELSE [val |-> Nil, found |-> FALSE, err |-> FALSE]

\* a record with a ttl is older than its ttl at time t; ttl 0 is no ttl
Expired(r, t) == r.ttl > 0 /\ t - r.at > r.ttl

\* Evict() at time t
DBEvict(s, t) ==
    [s EXCEPT !.recs = [k \in {x \in DOMAIN s.recs : ~Expired(s.recs[x], t)} |-> s.recs[k]]]

\* GetOldestKey(): the smallest key held, 0 when the store is empty
DBGetOldestKey(s) ==
    IF DOMAIN s.recs = {} THEN 0
    ELSE CHOOSE k \in DOMAIN s.recs : \A x \in DOMAIN s.recs : k <= x

\* GetNextKey(k): the smallest key above k, 0 when there is none
DBGetNextKey(s, k) ==
    LET above == {x \in DOMAIN s.recs : x > k}
    IN  IF above = {} THEN 0 ELSE CHOOSE a \in above : \A x \in above : a <= x

NoLast == [op |-> "", by |-> 0, name |-> "", key |-> 0, val |-> Nil, found |-> FALSE,
           err |-> FALSE,
           prev |-> 0,           \* the key the WriteSignal before this one returned
           stored |-> FALSE,     \* the store held the key when it was looked up,
           held |-> Nil,         \* and this value under it
           during |-> FALSE]     \* the store call was made while an evict was in progress

NoEvict == [by |-> 0,
            calledB |-> FALSE, errB |-> FALSE,   \* bookmark.Evict() was called; it failed
            atB |-> 0,                           \* when it was called
            calledS |-> FALSE, errS |-> FALSE,   \* sampleDB.Evict() was called; it failed
            at |-> 0,                            \* when it was called,
            before |-> EmptyMap,                 \* the records the sample store held then,
            watermark |-> 0]                     \* and dbs.oldestInUsKey then

\* no store coordinator in this process
DbAbsent ==
    /\ sampleDB = NewDB
    /\ bookmark = NewDB
    /\ ttl = 0
    /\ oldestInUsKey = 0
    /\ dbmut = 0
    /\ dbpc = [t \in Threads |-> "idle"]
    /\ now = 0
    /\ last = NoLast
    /\ ev = NoEvict
    /\ firstKey = 0
    /\ lastKey = 0
    /\ wrote = EmptyMap

\* no round trip under way
RtAbsent == rt = NoRt

----------------------------------------------------------------------------
\* Construction

clearUncommittedNothing(f, d) == f

\* clearUncommitted(directory): the file system it leaves
clearUncommitted(f, d) == RemoveAll(f, Glob(f, d, "uncommitted"))

currentindexZero(f, d) == 0

\* newQueue: currentindex, from the *.committed files of file system f
currentindex(f, d) ==
    LET ids == SortedIds(Glob(f, d, "committed"))
    IN  IF Len(ids) > 0 THEN ids[Len(ids)] ELSE 0

Init ==
    /\ directory \in Dirs
    /\ fs = EmptyMap
    /\ maxindex = 0
    /\ mut = 0
    /\ pc = [t \in Threads |-> "idle"]
    /\ call = [t \in Threads |-> NoCall]
    /\ observe \in Observations
    /\ pending = {}
    /\ lastAlloc = [idx |-> 0, by |-> 0]
    /\ lost = {}
    /\ highWater = 0
    /\ promoted = EmptyMap
    /\ overtaken = {}
    /\ received = <<>>
    /\ DbAbsent
    /\ RtAbsent

----------------------------------------------------------------------------
\* q.mut.Lock() / defer q.mut.Unlock()

CanLockAlways == TRUE

\* Lock() returns only when no goroutine holds the mutex
CanLock == mut = 0

Unlock(t) ==
    /\ pc[t] = "unlock"
    /\ mut' = 0
    /\ pc' = [pc EXCEPT ![t] = "idle"]
    /\ call' = [call EXCEPT ![t] = NoCall]
    /\ UNCHANGED <<fs, directory, maxindex, hist>>
    /\ UNCHANGED other

----------------------------------------------------------------------------
\* AddCommited / AddUncommited

\* Lock(); q.maxindex++
AddBegin(t, op, data) ==
    /\ pc[t] = "idle"
    /\ CanLock
    /\ maxindex < MaxIdx
    /\ mut' = t
    /\ maxindex' = maxindex + 1
    /\ pc' = [pc EXCEPT ![t] = "add_open"]
    /\ call' = [call EXCEPT ![t] = [NoCall EXCEPT !.op = op, !.data = data]]
    /\ UNCHANGED <<fs, directory, hist>>
    /\ UNCHANGED other

\* name := filepath.Join(q.directory, fmt.Sprintf(..., q.maxindex));
\* os.WriteFile opens name with O_WRONLY|O_CREATE|O_TRUNC
AddOpen(t) ==
    /\ pc[t] = "add_open"
    /\ LET name == Join(directory, IF call[t].op = "AddCommited"
                                   THEN CommittedName(maxindex)
                                   ELSE UncommittedName(maxindex))
       IN  /\ lastAlloc' = [idx |-> maxindex, by |-> t]
           /\ \E fail \in BOOLEAN :
                IF fail
                THEN /\ call' = [call EXCEPT ![t].name = name, ![t].err = TRUE,
                                             ![t].io = TRUE,
                                             ![t].fresh = maxindex > lastAlloc.idx]
                     /\ pc' = [pc EXCEPT ![t] = "unlock"]
                     /\ UNCHANGED <<fs, pending, lost, highWater>>
                ELSE /\ fs' = Put(fs, name, <<>>)
                     /\ call' = [call EXCEPT ![t].name = name,
                                             ![t].fresh = maxindex > lastAlloc.idx]
                     /\ pc' = [pc EXCEPT ![t] = "add_write"]
                     /\ pending' = IF call[t].op = "AddUncommited"
                                   THEN pending \cup {name}
                                   ELSE pending
                     /\ lost' = lost \ {name.stem}
                     /\ highWater' = Obs("crash", Max(highWater, maxindex), highWater)
    /\ UNCHANGED <<directory, maxindex, mut, observe, promoted, overtaken, received>>
    /\ UNCHANGED other

\* os.WriteFile writes snappy.Encode(buffer, data): all of it, or a prefix and an error
AddWrite(t) ==
    /\ pc[t] = "add_write"
    /\ LET enc  == Encode(call[t].data)
           name == call[t].name
       IN  \E k \in 0..Len(enc) :
             /\ fs' = Put(fs, name, SubSeq(enc, 1, k))
             /\ call' = [call EXCEPT ![t].err = (k < Len(enc)), ![t].io = (k < Len(enc))]
    /\ pc' = [pc EXCEPT ![t] = "unlock"]
    /\ UNCHANGED <<directory, maxindex, mut, hist>>
    /\ UNCHANGED other

----------------------------------------------------------------------------
\* Commit

CommitBegin(t, hs) ==
    /\ pc[t] = "idle"
    /\ CanLock
    /\ mut' = t
    /\ pc' = [pc EXCEPT ![t] = "commit_loop"]
    /\ call' = [call EXCEPT ![t] =
                  [NoCall EXCEPT !.op = "Commit", !.handles = hs, !.i = 1,
                                 !.batch = [h \in {x \in Range(hs) :
                                                     /\ x \in pending
                                                     /\ x \in DOMAIN fs
                                                     /\ ~Decode(fs[x]).err}
                                            |-> Decode(fs[h]).data]]]
    /\ UNCHANGED <<fs, directory, maxindex, hist>>
    /\ UNCHANGED other

\* promoted, once a Commit that met no failure of the environment returns
Promote(t) ==
    IF observe = "commit" /\ DOMAIN call[t].batch = Range(call[t].handles)
    THEN [h \in DOMAIN promoted \cup DOMAIN call[t].batch |->
            IF h \in DOMAIN call[t].batch THEN call[t].batch[h] ELSE promoted[h]]
    ELSE promoted

\* one round of the loop over handles, or the return after it
CommitStep(t) ==
    /\ pc[t] = "commit_loop"
    /\ IF call[t].i > Len(call[t].handles)
       THEN /\ pc' = [pc EXCEPT ![t] = "unlock"]
            /\ call' = call
            /\ promoted' = Promote(t)
            /\ UNCHANGED <<fs, pending>>
       ELSE LET h       == call[t].handles[call[t].i]
                newname == Replace(h)
                src     == Join(directory, h)
                dst     == Join(directory, newname)
            IN  \/ /\ src \notin DOMAIN fs            \* os.Rename: no such file
                   /\ call' = [call EXCEPT ![t].err = TRUE]
                   /\ pc' = [pc EXCEPT ![t] = "unlock"]
                   /\ promoted' = Promote(t)
                   /\ UNCHANGED <<fs, pending>>
                \/ /\ src \in DOMAIN fs               \* os.Rename fails in the environment
                   /\ call' = [call EXCEPT ![t].err = TRUE, ![t].io = TRUE]
                   /\ pc' = [pc EXCEPT ![t] = "unlock"]
                   /\ UNCHANGED <<fs, pending, promoted>>
                \/ /\ src \in DOMAIN fs
                   /\ fs' = Put(Remove(fs, src), dst, fs[src])
                   /\ call' = [call EXCEPT ![t].i = call[t].i + 1]
                   /\ pc' = pc
                   /\ pending' = IF dst # src THEN pending \ {src} ELSE pending
                   /\ promoted' = promoted
    /\ UNCHANGED <<directory, maxindex, mut, observe, lastAlloc, lost, highWater,
                   overtaken, received>>
    /\ UNCHANGED other

----------------------------------------------------------------------------
\* Next

Highest(ids) == ids[Len(ids)]

LowestNonZero(ids) ==
    IF \E k \in DOMAIN ids : ids[k] # 0
    THEN ids[CHOOSE k \in DOMAIN ids : ids[k] # 0 /\ \A j \in 1..(k - 1) : ids[j] = 0]
    ELSE ids[1]

\* ids[0] after sort.Ints(ids)
Lowest(ids) == ids[1]

\* the return values of Next on file system f; fail: os.ReadFile fails in the environment
NextResult(f, fail) ==
    LET matches == Glob(f, directory, "committed")
        none    == [found |-> FALSE, data |-> <<>>, name |-> NoPath, more |-> FALSE,
                    io |-> FALSE]
    IN  IF matches = {} THEN none
        ELSE LET ids  == SortedIds(matches)
                 name == Join(directory, CommittedName(Lowest(ids)))
             IN  IF name \notin DOMAIN f THEN none
                 ELSE IF fail THEN [none EXCEPT !.io = TRUE]
                 ELSE IF Decode(f[name]).err THEN none
                 ELSE [found |-> TRUE, data |-> Decode(f[name]).data, name |-> name,
                       more |-> Len(ids) > 1, io |-> FALSE]

NextCall(t) ==
    /\ pc[t] = "idle"
    /\ CanLock
    /\ mut' = t
    /\ pc' = [pc EXCEPT ![t] = "unlock"]
    /\ \E fail \in BOOLEAN :
         LET r == NextResult(fs, fail)
         IN  /\ fail => r.io
             /\ call' = [call EXCEPT ![t] =
                           [NoCall EXCEPT !.op = "Next", !.found = r.found,
                                          !.data = r.data, !.name = r.name,
                                          !.more = r.more, !.io = r.io]]
             /\ IF r.found /\ observe = "order"
                THEN /\ received' = IF received # <<>>
                                       /\ received[Len(received)] = IdOf(r.name)
                                    THEN received
                                    ELSE Append(received, IdOf(r.name))
                     /\ overtaken' = overtaken \cup
                           {p.stem : p \in {x \in Glob(fs, directory, "uncommitted") :
                                              IdOf(x) < IdOf(r.name)}}
                ELSE UNCHANGED <<received, overtaken>>
    /\ UNCHANGED <<fs, directory, maxindex, observe, pending, lastAlloc, lost,
                   highWater, promoted>>
    /\ UNCHANGED other

----------------------------------------------------------------------------
\* Delete

DeleteCall(t, name) ==
    /\ pc[t] = "idle"
    /\ CanLock
    /\ mut' = t
    /\ pc' = [pc EXCEPT ![t] = "unlock"]
    /\ call' = [call EXCEPT ![t] = [NoCall EXCEPT !.op = "Delete", !.name = name]]
    /\ fs' = Remove(fs, name)                   \* os.Remove(name), its error dropped
    /\ pending' = pending \ {name}
    /\ UNCHANGED <<directory, maxindex, observe, lastAlloc, lost, highWater, promoted,
                   overtaken, received>>
    /\ UNCHANGED other

----------------------------------------------------------------------------
\* The process stops at any point (crash or exit) and newQueue runs again on
\* the same directory.

Reopen ==
    LET f1 == clearUncommitted(fs, directory)
        mx == currentindex(f1, directory)
    IN  /\ fs' = f1
        /\ maxindex' = mx
        /\ mut' = 0
        /\ pc' = [t \in Threads |-> "idle"]
        /\ call' = [t \in Threads |-> NoCall]
        /\ lost' = Obs("crash", Stems(pending), lost)
        /\ pending' = {}
        /\ lastAlloc' = [idx |-> 0, by |-> 0]
        /\ promoted' = EmptyMap
        /\ overtaken' = {s \in overtaken : Atoi(s).val <= mx}
        /\ received' = SelectSeq(received, LAMBDA n : n <= mx)
        /\ UNCHANGED <<directory, observe, highWater>>
        /\ UNCHANGED other

----------------------------------------------------------------------------
Next ==
    \/ \E t \in Threads, op \in {"AddCommited", "AddUncommited"}, data \in Payloads :
          AddBegin(t, op, data)
    \/ \E t \in Threads : AddOpen(t)
    \/ \E t \in Threads : AddWrite(t)
    \/ \E t \in Threads, hs \in Batches : CommitBegin(t, hs)
    \/ \E t \in Threads : CommitStep(t)
    \/ \E t \in Threads : NextCall(t)
    \/ \E t \in Threads, name \in Names : DeleteCall(t, name)
    \/ \E t \in Threads : Unlock(t)
    \/ Reopen

Spec == Init /\ [][Next]_vars

\* the behaviours that record one of the histories
InitCrash == Init /\ observe = "crash"

SpecCrash == InitCrash /\ [][Next]_vars

InitCommit == Init /\ observe = "commit"

SpecCommit == InitCommit /\ [][Next]_vars

InitOrder == Init /\ observe = "order"

SpecOrder == InitOrder /\ [][Next]_vars

\* a file that no queue wrote, under a non-numeric name
Stray == [dir |-> <<>>, stem |-> "x", ext |-> "committed"]

\* newQueue on a directory that is empty or holds such a file
InitStray ==
    /\ directory \in Dirs
    /\ fs \in {EmptyMap, Put(EmptyMap, Join(directory, Stray), Encode(<<5>>))}
    /\ maxindex = currentindex(fs, directory)
    /\ mut = 0
    /\ pc = [t \in Threads |-> "idle"]
    /\ call = [t \in Threads |-> NoCall]
    /\ observe = "crash"
    /\ pending = {}
    /\ lastAlloc = [idx |-> 0, by |-> 0]
    /\ lost = {}
    /\ highWater = 0
    /\ promoted = EmptyMap
    /\ overtaken = {}
    /\ received = <<>>
    /\ DbAbsent
    /\ RtAbsent

SpecStray == InitStray /\ [][Next]_vars

----------------------------------------------------------------------------
\* One payload through writeFile and readFile

\* no queue in this process
QueueAbsent ==
    /\ directory = <<>>
    /\ fs = EmptyMap
    /\ maxindex = 0
    /\ mut = 0
    /\ pc = [t \in Threads |-> "idle"]
    /\ call = [t \in Threads |-> NoCall]
    /\ observe = "crash"
    /\ pending = {}
    /\ lastAlloc = [idx |-> 0, by |-> 0]
    /\ lost = {}
    /\ highWater = 0
    /\ promoted = EmptyMap
    /\ overtaken = {}
    /\ received = <<>>

InitRoundTrip ==
    /\ QueueAbsent
    /\ DbAbsent
    /\ rt \in {[NoRt EXCEPT !.pc = "write", !.buf = b, !.data = d] :
                 b \in PoolBuffers, d \in SeqsUpTo(MaxLen)}

\* an Add: writeFile(name, data), os.WriteFile storing all it is given
RtWrite ==
    /\ rt.pc = "write"
    /\ LET w == writeFile(rt.buf, rt.data)
       IN  rt' = [rt EXCEPT !.pc = "read", !.file = w.file, !.buf = w.buf]
    /\ UNCHANGED <<qvars, dbvars>>

\* Next(enc) on that entry: readFile(name, enc)
RtRead(enc) ==
    /\ rt.pc = "read"
    /\ LET r == readFile(rt.file, enc)
       IN  rt' = [rt EXCEPT !.pc = "done", !.enc = enc, !.out = r.data, !.err = r.err]
    /\ UNCHANGED <<qvars, dbvars>>

\* the next payload, written through the buffer the pool got back
RtAgain(data) ==
    /\ rt.pc = "done"
    /\ rt' = [NoRt EXCEPT !.pc = "write", !.buf = rt.buf, !.data = data]
    /\ UNCHANGED <<qvars, dbvars>>

NextRoundTrip ==
    \/ RtWrite
    \/ \E enc \in CallerBuffers : RtRead(enc)
    \/ \E data \in SeqsUpTo(MaxLen) : RtAgain(data)

SpecRoundTrip == InitRoundTrip /\ [][NextRoundTrip]_vars

----------------------------------------------------------------------------
\* The store coordinator (dbstore)

TTLs == {1, 2}                               \* the ttl given to newDBStore
SampleValues == {Sample(1), Sample(2)}       \* values handed to WriteSignal
BookmarkValues == {Bookmark(1), Bookmark(5)} \* values handed to WriteBookmark
BookmarkKeys == {"a"}                        \* keys bookmarks are written under
LookupKeys == {"a", "b"}                     \* keys handed to GetBookmark

\* newDBStore(ttl, directory, r, l)
InitDb ==
    /\ QueueAbsent
    /\ RtAbsent
    /\ sampleDB = NewDB
    /\ bookmark = NewDB
    /\ ttl \in TTLs
    /\ oldestInUsKey = 0
    /\ dbmut = 0
    /\ dbpc = [t \in Threads |-> "idle"]
    /\ now = 0
    /\ last = NoLast
    /\ ev = NoEvict
    /\ firstKey = 0
    /\ lastKey = 0
    /\ wrote = EmptyMap

\* dbs.mut.Lock() returns only when no goroutine holds the mutex
DbCanLock == dbmut = 0

\* an evict holds the lock and has not finished its two store calls
InEvict == \E u \in Threads : dbpc[u] \in {"evict_bookmark", "evict_sample"}

BookmarkTTLOfSamples == ttl

\* the ttl WriteBookmark passes: 0*time.Second
BookmarkTTL == 0

\* WriteBookmark(key, value); fail: the engine's write fails
WriteBookmark(t, key, value) ==
    /\ dbpc[t] = "idle"
    /\ \E fail \in BOOLEAN :
         /\ bookmark' = IF fail THEN bookmark
                        ELSE DBWriteValue(bookmark, key, value, BookmarkTTL, now)
         /\ last' = [NoLast EXCEPT !.op = "WriteBookmark", !.by = t, !.name = key,
                                   !.val = value, !.err = fail, !.during = InEvict]
         /\ wrote' = IF fail THEN wrote ELSE Put(wrote, key, value)
    /\ UNCHANGED <<sampleDB, ttl, oldestInUsKey, dbmut, dbpc, now, ev, firstKey, lastKey>>
    /\ UNCHANGED <<qvars, rt>>

GetBookmarkDefaultZero(r) ==
    IF r.val = Nil THEN [val |-> Bookmark(0), found |-> FALSE]
    ELSE [val |-> r.val, found |-> r.found]

\* what GetBookmark returns when GetValueByString returned r
GetBookmark(r) ==
    IF r.val = Nil THEN [val |-> Bookmark(1), found |-> FALSE]
    ELSE [val |-> r.val, found |-> r.found]

GetBookmarkCall(t, key) ==
    /\ dbpc[t] = "idle"
    /\ \E fail \in BOOLEAN :
         LET r == DBGetValue(bookmark, key, fail)
         IN  last' = [NoLast EXCEPT !.op = "GetBookmark", !.by = t, !.name = key,
                                    !.val = GetBookmark(r).val,
                                    !.found = GetBookmark(r).found,
                                    !.err = r.err, !.during = InEvict,
                                    !.stored = key \in DOMAIN bookmark.recs,
                                    !.held = IF key \in DOMAIN bookmark.recs
                                             THEN bookmark.recs[key].val ELSE Nil]
    /\ UNCHANGED <<sampleDB, bookmark, ttl, oldestInUsKey, dbmut, dbpc, now, ev,
                   firstKey, lastKey, wrote>>
    /\ UNCHANGED <<qvars, rt>>

SampleTTLZero == BookmarkTTL

\* the ttl WriteSignal passes: dbs.ttl
SampleTTL == ttl

\* WriteSignal(value): (key, err); fail: the engine's write fails
WriteSignal(t, value) ==
    /\ dbpc[t] = "idle"
    /\ sampleDB.next <= MaxKey
    /\ \E fail \in BOOLEAN :
         LET w == DBWriteValueWithAutokey(sampleDB, value, SampleTTL, now)
         IN  /\ sampleDB' = IF fail THEN sampleDB ELSE w.db
             /\ last' = [NoLast EXCEPT !.op = "WriteSignal", !.by = t, !.val = value,
                                       !.key = IF fail THEN 0 ELSE w.key,
                                       !.err = fail, !.prev = lastKey,
                                       !.during = InEvict]
             /\ firstKey' = IF ~fail /\ firstKey = 0 THEN w.key ELSE firstKey
             /\ lastKey' = IF fail THEN lastKey ELSE w.key
    /\ UNCHANGED <<bookmark, ttl, oldestInUsKey, dbmut, dbpc, now, ev, wrote>>
    /\ UNCHANGED <<qvars, rt>>

GetOldestKeyWatermark == oldestInUsKey

\* GetOldestKey()
GetOldestKey == DBGetOldestKey(sampleDB)

\* GetNextKey(k)
GetNextKey(k) == DBGetNextKey(sampleDB, k)

GetSignalAlwaysMissing(r) == [val |-> Nil, found |-> FALSE]

\* what GetSignal returns when GetValueByKey returned r
GetSignal(r) ==
    IF r.err THEN [val |-> Nil, found |-> FALSE]
    ELSE [val |-> r.val, found |-> r.found]

GetSignalCall(t, key) ==
    /\ dbpc[t] = "idle"
    /\ \E fail \in BOOLEAN :
         LET r == DBGetValue(sampleDB, key, fail)
         IN  last' = [NoLast EXCEPT !.op = "GetSignal", !.by = t, !.key = key,
                                    !.val = GetSignal(r).val,
                                    !.found = GetSignal(r).found,
                                    !.err = r.err, !.during = InEvict,
                                    !.stored = key \in DOMAIN sampleDB.recs,
                                    !.held = IF key \in DOMAIN sampleDB.recs
                                             THEN sampleDB.recs[key].val ELSE Nil]
    /\ UNCHANGED <<sampleDB, bookmark, ttl, oldestInUsKey, dbmut, dbpc, now, ev,
                   firstKey, lastKey, wrote>>
    /\ UNCHANGED <<qvars, rt>>

\* UpdateOldestKey(k): Lock(); dbs.oldestInUsKey = k
UpdateOldestKey(t, k) ==
    /\ dbpc[t] = "idle"
    /\ DbCanLock
    /\ dbmut' = t
    /\ oldestInUsKey' = k
    /\ dbpc' = [dbpc EXCEPT ![t] = "uok_unlock"]
    /\ last' = [NoLast EXCEPT !.op = "UpdateOldestKey", !.by = t, !.key = k]
    /\ UNCHANGED <<sampleDB, bookmark, ttl, now, ev, firstKey, lastKey, wrote>>
    /\ UNCHANGED <<qvars, rt>>

\* evict(): Lock()
EvictBegin(t) ==
    /\ dbpc[t] = "idle"
    /\ DbCanLock
    /\ dbmut' = t
    /\ dbpc' = [dbpc EXCEPT ![t] = "evict_bookmark"]
    /\ ev' = [NoEvict EXCEPT !.by = t]
    /\ UNCHANGED <<sampleDB, bookmark, ttl, oldestInUsKey, now, last, firstKey, lastKey, wrote>>
    /\ UNCHANGED <<qvars, rt>>

AfterBookmarkEvictReturn(err) == IF err THEN "evict_unlock" ELSE "evict_sample"

\* where evict goes on once dbs.bookmark.Evict() returned: the error is logged
AfterBookmarkEvict(err) == "evict_sample"

\* err := dbs.bookmark.Evict(); fail: the engine's eviction fails
EvictBookmark(t) ==
    /\ dbpc[t] = "evict_bookmark"
    /\ \E fail \in BOOLEAN :
         /\ bookmark' = IF fail THEN bookmark ELSE DBEvict(bookmark, now)
         /\ ev' = [ev EXCEPT !.calledB = TRUE, !.errB = fail, !.atB = now]
         /\ dbpc' = [dbpc EXCEPT ![t] = AfterBookmarkEvict(fail)]
    /\ UNCHANGED <<sampleDB, ttl, oldestInUsKey, dbmut, now, last, firstKey, lastKey, wrote>>
    /\ UNCHANGED <<qvars, rt>>

SampleEvictAboveWatermarkKept(s, t, k) ==
    [s EXCEPT !.recs = [x \in {y \in DOMAIN s.recs : ~Expired(s.recs[y], t) \/ y >= k}
                          |-> s.recs[x]]]

\* dbs.sampleDB.Evict() at time t, dbs.oldestInUsKey being k
SampleEvict(s, t, k) == DBEvict(s, t)

\* err = dbs.sampleDB.Evict(); fail: the engine's eviction fails
EvictSample(t) ==
    /\ dbpc[t] = "evict_sample"
    /\ \E fail \in BOOLEAN :
         /\ sampleDB' = IF fail THEN sampleDB
                        ELSE SampleEvict(sampleDB, now, oldestInUsKey)
         /\ ev' = [ev EXCEPT !.calledS = TRUE, !.errS = fail, !.before = sampleDB.recs,
                             !.at = now, !.watermark = oldestInUsKey]
    /\ dbpc' = [dbpc EXCEPT ![t] = "evict_unlock"]
    /\ UNCHANGED <<bookmark, ttl, oldestInUsKey, dbmut, now, last, firstKey, lastKey, wrote>>
    /\ UNCHANGED <<qvars, rt>>

\* defer dbs.mut.Unlock()
DbUnlock(t) ==
    /\ dbpc[t] \in {"evict_unlock", "uok_unlock"}
    /\ dbmut' = 0
    /\ dbpc' = [dbpc EXCEPT ![t] = "idle"]
    /\ ev' = IF dbpc[t] = "evict_unlock" THEN NoEvict ELSE ev
    /\ UNCHANGED <<sampleDB, bookmark, ttl, oldestInUsKey, now, last, firstKey, lastKey, wrote>>
    /\ UNCHANGED <<qvars, rt>>

\* time passes
Tick ==
    /\ now < MaxTime
    /\ now' = now + 1
    /\ UNCHANGED <<sampleDB, bookmark, ttl, oldestInUsKey, dbmut, dbpc, last, ev,
                   firstKey, lastKey, wrote>>
    /\ UNCHANGED <<qvars, rt>>

\* the sample store's side of the coordinator: writer, reader and evictor
NextSample ==
    \/ \E t \in Threads, value \in SampleValues : WriteSignal(t, value)
    \/ \E t \in Threads, key \in 0..MaxKey : GetSignalCall(t, key)
    \/ \E t \in Threads : EvictBegin(t)
    \/ \E t \in Threads : EvictBookmark(t)
    \/ \E t \in Threads : EvictSample(t)
    \/ \E t \in Threads : DbUnlock(t)
    \/ Tick

SpecSample == InitDb /\ [][NextSample]_vars

\* the consumer's watermark, with the writer and the evictor at work
NextWatermark ==
    \/ \E t \in Threads, k \in 0..MaxKey : UpdateOldestKey(t, k)
    \/ \E t \in Threads : WriteSignal(t, Sample(1))
    \/ \E t \in Threads : EvictBegin(t)
    \/ \E t \in Threads : EvictBookmark(t)
    \/ \E t \in Threads : EvictSample(t)
    \/ \E t \in Threads : DbUnlock(t)
    \/ Tick

SpecWatermark == InitDb /\ [][NextWatermark]_vars

\* the bookmark store's side: a consumer's bookmark, with the writer and the
\* evictor at work
NextBookmark ==
    \/ \E t \in Threads, key \in BookmarkKeys, value \in BookmarkValues :
          WriteBookmark(t, key, value)
    \/ \E t \in Threads, key \in LookupKeys : GetBookmarkCall(t, key)
    \/ \E t \in Threads : WriteSignal(t, Sample(1))
    \/ \E t \in Threads : EvictBegin(t)
    \/ \E t \in Threads : EvictBookmark(t)
    \/ \E t \in Threads : EvictSample(t)
    \/ \E t \in Threads : DbUnlock(t)
    \/ Tick

SpecBookmark == InitDb /\ [][NextBookmark]_vars

----------------------------------------------------------------------------
\* Properties

\* goroutine t has run the body of op and still holds the lock
Done(t, op) == pc[t] = "unlock" /\ call[t].op = op

\* the files of the queue's directory
QueueFiles == {p \in DOMAIN fs : p.dir = directory}

\* C1: an entry made by AddUncommited and not committed when the process
\* stopped is gone after the reopen: the directory holds no file of it and
\* Next does not return it.
C1_UncommittedDiscarded ==
    /\ \A s \in lost : \A p \in QueueFiles : p.stem # s
    /\ \A t \in Threads :
         Done(t, "Next") /\ call[t].found => call[t].name.stem \notin lost

C1_Witness == lost # {} /\ \E t \in Threads : Done(t, "Next")

\* C2: whenever no operation is in progress (also after a crash inside an Add
\* or a Commit and the reopen), no index has both an uncommitted and a
\* committed file, and every committed file holds the complete encoding of a
\* payload.
C2_NoHalfWritten ==
    mut = 0 =>
      /\ \A p, r \in QueueFiles : p.stem = r.stem => p = r
      /\ \A p \in Glob(fs, directory, "committed") : ~Decode(fs[p]).err

\* C3: the next index an Add is given (maxindex + 1) is above every index
\* written to the directory so far, also after a reopen.
C3_IndexAboveEveryWritten == maxindex >= highWater

\* C4: a Commit given handles that AddUncommited returned, their files present
\* and complete, and meeting no failure of the environment, returns no error
\* and leaves each entry under its committed name.
C4_CommitRenames ==
    \A t \in Threads :
      Done(t, "Commit") /\ ~call[t].io
        /\ DOMAIN call[t].batch = Range(call[t].handles)
      => /\ ~call[t].err
         /\ \A h \in Range(call[t].handles) :
              /\ h \notin DOMAIN fs
              /\ Replace(h) \in DOMAIN fs
              /\ Decode(fs[Replace(h)]).data = call[t].batch[h]

\* C5: when the only entry of the queue is one that AddUncommited(p) returned
\* under handle h and Commit([h]) was called for, Next returns (p, h, true, false).
C5_NextReturnsSameHandle ==
    \A t \in Threads :
      Done(t, "Next") /\ ~call[t].io =>
        \A h \in DOMAIN promoted :
          Stems(QueueFiles) = {h.stem} =>
            /\ call[t].found
            /\ call[t].name = h
            /\ call[t].data = promoted[h]
            /\ ~call[t].more

\* C6: Next hands out the entries in the order they were added (increasing
\* index): an entry is returned after a later-added one only if it was still
\* uncommitted when that later one was returned.
C6_FIFO ==
    \A a, b \in DOMAIN received :
      a < b /\ received[a] > received[b] => Itoa(received[b]) \in overtaken

C6_Witness ==
    /\ Len(received) >= 2
    /\ overtaken = {}
    /\ \E t \in Threads :
         /\ Done(t, "Next")
         /\ call[t].found
         /\ IdOf(call[t].name) = received[Len(received)]
         /\ received[Len(received) - 1] < received[Len(received)]

\* C7: what Next returns is never an entry that is uncommitted at that moment;
\* when it finds nothing it returns no payload and the empty handle.
C7_NextOnlyCommitted ==
    \A t \in Threads :
      Done(t, "Next") =>
        IF call[t].found
        THEN /\ call[t].name.ext = "committed"
             /\ call[t].name.dir = directory
             /\ call[t].name.stem \notin Stems(pending)
        ELSE call[t].name = NoPath /\ call[t].data = <<>>

C7_Witness ==
    \E t \in Threads :
      /\ Done(t, "Next")
      /\ call[t].found
      /\ \E p \in pending : p \in DOMAIN fs /\ IdOf(p) < IdOf(call[t].name)

\* C8: Next returns found=false when the directory holds no committed file,
\* and otherwise found=true with the payload and name of the committed file of
\* lowest index; hasMore tells whether there is more than one committed file.
C8_NextLowestCommitted ==
    \A t \in Threads :
      Done(t, "Next") =>
        LET C == Glob(fs, directory, "committed")
        IN  IF C = {} THEN ~call[t].found
            ELSE /\ call[t].found
                 /\ call[t].name \in C
                 /\ \A p \in C : IdOf(call[t].name) <= IdOf(p)
                 /\ call[t].data = Decode(fs[call[t].name]).data
                 /\ call[t].more = (Cardinality(C) > 1)

\* C9: an operation in which a rename, write or read failed returns an error.
C9_ErrorsSurfaced ==
    \A t \in Threads : pc[t] = "unlock" /\ call[t].io => call[t].err

\* C10: the operations exclude each other: at most one goroutine is inside a
\* queue method, it holds the lock, and no Add is given an index that an
\* earlier Add of this queue instance was given.
C10_Serialized ==
    /\ Cardinality({t \in Threads : pc[t] # "idle"}) <= 1
    /\ \A t \in Threads : pc[t] # "idle" => mut = t
    /\ \A t \in Threads : call[t].fresh

\* an Add of one goroutine is under way right after an Add of another was
\* given the previous index
C10_Witness ==
    \E t \in Threads :
      /\ pc[t] = "add_open"
      /\ lastAlloc.by \in Threads \ {t}
      /\ maxindex = lastAlloc.idx + 1

----------------------------------------------------------------------------
\* C11: an entry written with payload p is read back by Next as exactly p,
\* whatever bytes the pooled buffer held before the write and whatever buffer
\* the caller hands to Next.
C11_RoundTrip == rt.pc = "done" => ~rt.err /\ rt.out = rt.data

\* a payload was written over a pooled buffer holding longer stale contents
\* and read back into a caller's buffer long enough to be reused
C11_Witness ==
    /\ rt.pc = "done"
    /\ rt.data # <<>>
    /\ Len(rt.buf.bytes) > Len(rt.file)
    /\ Len(rt.enc) >= Len(rt.data)

----------------------------------------------------------------------------
\* goroutine t has made both store calls of evict and still holds the lock
Evicted(t) == dbpc[t] = "evict_unlock"

\* what GetSignal(k) finds when the engine's read does not fail
Retrieved(k) == GetSignal(DBGetValue(sampleDB, k, FALSE))

\* C12: once an evict whose sample eviction did not fail is through, a sample
\* that was older than ttl at the eviction is not found by GetSignal under its
\* key, and every other sample the store held is found with its value.
C12_EvictionBound ==
    \A t \in Threads :
        Evicted(t) /\ ~ev.errS =>
            \A k \in DOMAIN ev.before :
                IF ev.at - ev.before[k].at > ttl
                THEN ~Retrieved(k).found
                ELSE Retrieved(k).found /\ Retrieved(k).val = ev.before[k].val

\* one evict removed a sample older than ttl and kept a younger one
C12_Witness ==
    \E t \in Threads :
        /\ Evicted(t) /\ ~ev.errS
        /\ \E k \in DOMAIN ev.before : ev.at - ev.before[k].at > ttl
        /\ \E k \in DOMAIN ev.before : ev.at - ev.before[k].at <= ttl

\* C13: every key WriteSignal returns is greater than the key it returned
\* before, with evictions in between or not, and GetOldestKey is the first key
\* written for as long as that record is in the store.
C13_AutokeyMonotonic ==
    /\ last.op = "WriteSignal" /\ ~last.err => last.key > last.prev
    /\ firstKey # 0 /\ firstKey \in DOMAIN sampleDB.recs => GetOldestKey = firstKey

\* a WriteSignal after the record written before it was evicted
C13_Witness ==
    /\ last.op = "WriteSignal" /\ ~last.err
    /\ last.prev # 0
    /\ last.prev \notin DOMAIN sampleDB.recs

\* C14: no WriteSignal, GetSignal, WriteBookmark or GetBookmark makes its store
\* call while an evict is in progress.
C14_NoStoreCallDuringEvict == ~last.during

\* C15: GetBookmark on a key the bookmark store does not hold returns the
\* default bookmark, Key 1, and found = false, also when the lookup fails.
C15_BookmarkDefault ==
    last.op = "GetBookmark" /\ ~last.stored =>
        last.val = Bookmark(1) /\ ~last.found

\* a failed lookup of a key that has no bookmark, another key having one
C15_Witness ==
    /\ last.op = "GetBookmark" /\ ~last.stored /\ last.err
    /\ bookmark.recs # EmptyMap

\* C16: evict calls the eviction of both stores whatever either returns: an
\* error from the bookmark store does not stop the sample store's eviction,
\* and evict goes on to its end after an error from the sample store.
C16_EvictionsIndependent ==
    \A t \in Threads :
        Evicted(t) =>
            /\ ev.calledB /\ ev.calledS
            /\ ev.errB /\ ~ev.errS =>
                  \A k \in DOMAIN ev.before :
                      ev.at - ev.before[k].at > ttl => k \notin DOMAIN sampleDB.recs

\* the bookmark eviction failed and the sample eviction still removed a record
C16_Witness ==
    \E t \in Threads :
        /\ Evicted(t)
        /\ ev.errB /\ ~ev.errS
        /\ \E k \in DOMAIN ev.before : k \notin DOMAIN sampleDB.recs

\* C17: a bookmark key holds the value last written under it, whatever
\* evictions and WriteSignal calls came since, and GetBookmark returns that
\* value with found = true when its lookup does not fail.
C17_BookmarkKept ==
    /\ \A k \in DOMAIN wrote :
          k \in DOMAIN bookmark.recs /\ bookmark.recs[k].val = wrote[k]
    /\ last.op = "GetBookmark" /\ ~last.err /\ last.name \in DOMAIN wrote =>
          last.found /\ last.val = wrote[last.name]

\* GetBookmark finds a bookmark that was older than ttl at an eviction of the
\* bookmark store
C17_Witness ==
    /\ last.op = "GetBookmark" /\ last.found
    /\ ev.calledB /\ ~ev.errB
    /\ ev.atB - bookmark.recs[last.name].at > ttl

\* C18: GetSignal returns (nil, false) when the lookup fails, and the value
\* and found of the store when it does not.
C18_GetSignalLossy ==
    last.op = "GetSignal" =>
        IF last.err THEN last.val = Nil /\ ~last.found
        ELSE last.found = last.stored /\ last.val = last.held

\* the lookup of a stored key failed
C18_Witness == last.op = "GetSignal" /\ last.err /\ last.stored

\* C19: a step that changes oldestInUsKey leaves both stores and ttl as they
\* are, and the sample store's eviction removes exactly the records older than
\* ttl, at or above oldestInUsKey or not.
C19_WatermarkFrame ==
    [][/\ oldestInUsKey' # oldestInUsKey =>
            sampleDB' = sampleDB /\ bookmark' = bookmark /\ ttl' = ttl
       /\ \A t \in Threads :
            dbpc[t] = "evict_sample" /\ dbpc'[t] = "evict_unlock" /\ ~ev'.errS =>
                DOMAIN sampleDB'.recs =
                    {k \in DOMAIN sampleDB.recs : ~(now - sampleDB.recs[k].at > ttl)}]_vars

\* an evict removed a record at or above a watermark a consumer had set
C19_Witness ==
    \E t \in Threads :
        /\ Evicted(t) /\ ~ev.errS
        /\ ev.watermark > 0
        /\ \E k \in DOMAIN ev.before : k >= ev.watermark /\ k \notin DOMAIN sampleDB.recs

----------------------------------------------------------------------------
\* C20: the index an Add was given is greater than the index of every file,
\* committed or uncommitted, in the queue's directory when the Add creates its
\* file, and no index has both an uncommitted and a committed file.
C20_AddAboveEveryFile ==
    /\ \A t \in Threads :
          pc[t] = "add_open" => \A p \in QueueFiles : IdOf(p) < maxindex
    /\ \A p \in QueueFiles, q \in QueueFiles : p.stem = q.stem => p = q

\* the first Add after a reopen that found files in the directory
C20_Witness ==
    /\ \E t \in Threads : pc[t] = "add_open"
    /\ QueueFiles # {}
    /\ lastAlloc.idx = 0

----------------------------------------------------------------------------
\* the index Next gives a committed file: its number, 0 for any other name
IndexOf(p) ==
    IF \E n \in 0..9 : p.stem = Itoa(n)
    THEN CHOOSE n \in 0..9 : p.stem = Itoa(n)
    ELSE 0

\* the committed files of the queue's directory
CommittedFiles == {p \in QueueFiles : p.ext = "committed"}

\* the file Next reads: the one named by the lowest index
NextFile ==
    Join(directory,
         CommittedName(CHOOSE n \in {IndexOf(p) : p \in CommittedFiles} :
                          \A p \in CommittedFiles : n <= IndexOf(p)))

\* there are committed files and the one Next reads is missing or is not a
\* complete block
Blocked == CommittedFiles # {} /\ (NextFile \notin DOMAIN fs \/ Decode(fs[NextFile]).err)

\* C21: whenever the committed file of the lowest index cannot be decoded, or
\* a committed file of a non-numeric name makes the lowest index 0, Next
\* returns found = false, no payload and an empty handle, whatever committed
\* entries of higher indices the directory holds.
C21_BlockedNext ==
    \A t \in Threads :
        Done(t, "Next") /\ Blocked =>
            ~call[t].found /\ call[t].name = NoPath /\ call[t].data = <<>>

\* Next found nothing although a complete committed entry of a higher index
\* is there, behind an incomplete one
C21_Witness ==
    \E t \in Threads :
        /\ Done(t, "Next") /\ ~call[t].found /\ ~call[t].io
        /\ CommittedFiles # {}
        /\ NextFile \in DOMAIN fs
        /\ \E p \in CommittedFiles : IndexOf(p) > IndexOf(NextFile) /\ ~Decode(fs[p]).err

====
